---- MODULE Spec2Model ----
(***************************************************************************)
(* The two Streamlit dashboards of the repository (src/app.py and          *)
(* src/app2.py) as one state machine.  A Streamlit script is re-executed   *)
(* top to bottom on every interaction, so each action below is one whole   *)
(* run of the script: load, clean, sidebar widgets, filter, metrics,       *)
(* charts.  A run that raises stops where the exception is thrown; what    *)
(* it had produced until then stays in the state.                          *)
(*                                                                         *)
(* Numbers are fixed point: a price (and a revenue) is an integer count of *)
(* 1/PriceScale dollars.  A numeric cell of a DataFrame is a record        *)
(* [na, v]; na = TRUE is NaN.  A missing categorical cell is NA.           *)
(*                                                                         *)
(* Every input file has a 'price' and a 'Sales Volume' column, so the      *)
(* search for another sales column (app.py lines 72-77) is never entered.  *)
(* Streamlit and plotly are taken as they are documented: a widget returns *)
(* its default on the first run and the user's value afterwards, and       *)
(* px.bar raises on a column the frame lacks.  The table and the download  *)
(* button at the end of the scripts show the view and compute nothing.     *)
(***************************************************************************)
EXTENDS Integers, Sequences, FiniteSets, TLC

\* ------------------------------------------------------------- bounds
MaxRows == 2
MaxChanges == 2
PriceScale == 2
MaxLen == 4
MaxMeasure == 2
MaxN == 3

\* ------------------------------------------------------------- values
Num(n) == [na |-> FALSE, v |-> n]
NaN == [na |-> TRUE, v |-> 0]
NA == "<NA>"

Range(s) == {s[i] : i \in 1..Len(s)}

Max2(a, b) == IF a >= b THEN a ELSE b

\* Python's string order on the strings the model uses (sorted()).
Alphabet ==
  <<"Aisle", "China", "Coat", "MAN", "No", "Spain", "Unknown", "Winter", "Wool", "Yes">>

Sorted(S) == SelectSeq(Alphabet, LAMBDA x : x \in S)

\* ------------------------------------------------------------- raw input
\* The text of a numeric cell of the CSV file: a number, other text, or empty.
NumCell(n) == [kind |-> "num", v |-> n]
TextCell == [kind |-> "text", v |-> 0]
EmptyCell == [kind |-> "empty", v |-> 0]

Fields ==
  {"name", "price", "Sales Volume", "Promotion", "Product Position", "Seasonal",
   "section", "season", "material", "origin"}

BaseRow ==
  [f \in Fields |->
     CASE f = "name" -> "Coat"
       [] f = "price" -> NumCell(PriceScale + 1)
       [] f = "Sales Volume" -> NumCell(2)
       [] f = "Promotion" -> "Yes"
       [] f = "Product Position" -> "Aisle"
       [] f = "Seasonal" -> "Yes"
       [] f = "section" -> "MAN"
       [] f = "season" -> "Winter"
       [] f = "material" -> "Wool"
       [] OTHER -> "Spain"]

\* The rows an input file is made of: a plain row, a cheaper row of another
\* promotion and origin, a row with unparsable price, a row with empty sales
\* volume, and a row with a missing categorical cell.
RowPool ==
  { BaseRow,
    [BaseRow EXCEPT !["price"] = NumCell(PriceScale), !["Sales Volume"] = NumCell(1),
                    !["Promotion"] = "No", !["origin"] = "China"],
    [BaseRow EXCEPT !["price"] = TextCell],
    [BaseRow EXCEPT !["Sales Volume"] = EmptyCell],
    [BaseRow EXCEPT !["Seasonal"] = NA, !["price"] = NumCell(PriceScale)] }

\* The header of an input file, as the set of its column names, and for each
\* column name the field whose cells it carries.
FieldOf(h) == IF h = "item" THEN "name" ELSE h

HeaderSets ==
  { Fields,
    Fields \ {"name"},
    (Fields \ {"name"}) \cup {"item"},
    Fields \ {"origin"},
    Fields \ {"Seasonal"} }

RawTables ==
  UNION { { [cols |-> H, rows |-> [i \in 1..n |-> [h \in H |-> rs[i][FieldOf(h)]]]]
            : rs \in [1..n -> RowPool] }
          : <<H, n>> \in HeaderSets \X (0..MaxRows) }

\* ------------------------------------------------------------- pandas helpers
\* pd.to_numeric(..., errors='coerce') on one cell.
ToNumeric(cell) == IF cell.kind = "num" THEN Num(cell.v) ELSE NaN

\* Elementwise product of two numeric cells; NaN propagates.
Times(a, b) == IF a.na \/ b.na THEN NaN ELSE Num(a.v * b.v)

\* Series.isin(values) on one cell: a missing cell is in no selection, since
\* no widget ever offers the missing value.
IsIn(x, S) == x # NA /\ x \in S

\* Series.between(lo, hi) on one cell, inclusive="both"; every comparison with
\* NaN is False.
Between(x, lo, hi) == ~x.na /\ ~lo.na /\ ~hi.na /\ lo.v <= x.v /\ x.v <= hi.v

RECURSIVE SumSeq(_)
SumSeq(s) == IF s = <<>> THEN 0 ELSE Head(s) + SumSeq(Tail(s))

\* The cells of column col of a frame's rows, in row order.
Column(rows, col) == [i \in 1..Len(rows) |-> rows[i].c[col]]

NotNa(cells) == SelectSeq(cells, LAMBDA x : ~x.na)

Values(cells) == [i \in 1..Len(cells) |-> cells[i].v]

\* Series.sum(): NaN cells are skipped, the sum of nothing is 0.
SeriesSum(cells) == SumSeq(Values(NotNa(cells)))

RECURSIVE MaxSeq(_)
MaxSeq(s) == IF Len(s) = 1 THEN Head(s) ELSE Max2(Head(s), MaxSeq(Tail(s)))

RECURSIVE MinSeq(_)
MinSeq(s) ==
  IF Len(s) = 1 THEN Head(s)
  ELSE IF Head(s) <= MinSeq(Tail(s)) THEN Head(s) ELSE MinSeq(Tail(s))

\* Series.max() and Series.min(): NaN cells are skipped, NaN when none is left.
SeriesMax(cells) == IF NotNa(cells) = <<>> THEN NaN ELSE Num(MaxSeq(Values(NotNa(cells))))

SeriesMin(cells) == IF NotNa(cells) = <<>> THEN NaN ELSE Num(MinSeq(Values(NotNa(cells))))

\* Series.mean() as the pair (sum, count) of the cells that are not NaN;
\* count = 0 is NaN.
SeriesMean(cells) == [sum |-> SeriesSum(cells), count |-> Len(NotNa(cells))]

\* df[col].unique() without the missing value.
Unique(rows, col) == {rows[i].c[col] : i \in 1..Len(rows)} \ {NA}

\* ------------------------------------------------------------- app.py: cleaning
\* str.lower() on the column names the model uses.
Lower(h) ==
  CASE h = "Promotion" -> "promotion"
    [] h = "Product Position" -> "product position"
    [] h = "Seasonal" -> "seasonal"
    [] h = "Sales Volume" -> "sales volume"
    [] OTHER -> h

col_map ==
  [old \in {"product_name", "productname", "item", "price", "sales_volume",
            "salesvolume", "units_sold", "unitssold", "quantity", "revenue",
            "promotion", "product_position", "position", "seasonal", "section",
            "gender", "season", "material", "fabric"} |->
     CASE old \in {"product_name", "productname", "item"} -> "name"
       [] old = "price" -> "price"
       [] old \in {"sales_volume", "salesvolume", "units_sold", "unitssold", "quantity"}
            -> "Sales Volume"
       [] old = "revenue" -> "Revenue"
       [] old = "promotion" -> "Promotion"
       [] old \in {"product_position", "position"} -> "Product Position"
       [] old = "seasonal" -> "Seasonal"
       [] old \in {"section", "gender"} -> "section"
       [] old = "season" -> "season"
       [] OTHER -> "material"]

\* The name a column has after the rename loop.
Renamed(h) == IF Lower(h) \in DOMAIN col_map THEN col_map[Lower(h)] ELSE h

\* read_csv and the rename loop: rows get their index 0, 1, ... .
RenameColumns(raw) ==
  LET cols == {Renamed(h) : h \in raw.cols}
      src(c) == CHOOSE h \in raw.cols : Renamed(h) = c
  IN  [cols |-> cols,
       rows |-> [i \in 1..Len(raw.rows) |->
                   [idx |-> i - 1, c |-> [c \in cols |-> raw.rows[i][src(c)]]]]]

\* Convert price and sales volume; a frame without a 'Sales Volume' column
\* gets df.get('Sales Volume', 0), that is 0 in every row.
ConvertNumeric(df) ==
  [cols |-> df.cols \cup {"Sales Volume"},
   rows |-> [i \in 1..Len(df.rows) |->
     [idx |-> df.rows[i].idx,
      c |-> [c \in df.cols \cup {"Sales Volume"} |->
               CASE c = "price" -> ToNumeric(df.rows[i].c["price"])
                 [] c = "Sales Volume" ->
                      IF "Sales Volume" \in df.cols
                      THEN ToNumeric(df.rows[i].c["Sales Volume"])
                      ELSE Num(0)
                 [] OTHER -> df.rows[i].c[c]]]]]

\* df.dropna(subset=['price', 'Sales Volume'])
DropNa(df) ==
  [df EXCEPT !.rows = SelectSeq(df.rows,
     LAMBDA r : ~r.c["price"].na /\ ~r.c["Sales Volume"].na)]

\* df['Revenue'] = df['price'] * df['Sales Volume']
AddRevenue(df) ==
  [cols |-> df.cols \cup {"Revenue"},
   rows |-> [i \in 1..Len(df.rows) |->
     [idx |-> df.rows[i].idx,
      c |-> [c \in df.cols \cup {"Revenue"} |->
               IF c = "Revenue"
               THEN Times(df.rows[i].c["price"], df.rows[i].c["Sales Volume"])
               ELSE df.rows[i].c[c]]]]]

cat_cols ==
  {"Promotion", "Product Position", "Seasonal", "section", "season", "material", "name"}

\* One cell of a categorical column after fillna("Unknown").astype(str).
FillCell(x) == IF x = NA THEN "Unknown" ELSE x

\* Fill missing categorical values; a column of cat_cols the frame lacks is
\* created with "Unknown" in every row.
FillCategorical(df) ==
  [cols |-> df.cols \cup cat_cols,
   rows |-> [i \in 1..Len(df.rows) |->
     [idx |-> df.rows[i].idx,
      c |-> [c \in df.cols \cup cat_cols |->
               IF c \in cat_cols
               THEN IF c \in df.cols THEN FillCell(df.rows[i].c[c]) ELSE "Unknown"
               ELSE df.rows[i].c[c]]]]]

\* 'Product ' + df.index.astype(str) for one row.
ProductName(idx) == "Product " \o ToString(idx)

\* "Ensure 'name' exists": only a frame without a 'name' column gets
\* 'Product ' + index; the frame has no 'product_name' column left after the
\* rename loop, so df.get falls to its default.
EnsureName(df) ==
  IF "name" \notin df.cols
  THEN [cols |-> df.cols \cup {"name"},
        rows |-> [i \in 1..Len(df.rows) |->
          [idx |-> df.rows[i].idx,
           c |-> [c \in df.cols \cup {"name"} |->
                    IF c = "name" THEN ProductName(df.rows[i].idx)
                    ELSE df.rows[i].c[c]]]]]
  ELSE df

CleanApp(raw) ==
  EnsureName(FillCategorical(AddRevenue(DropNa(ConvertNumeric(RenameColumns(raw))))))

\* ------------------------------------------------------------- app2.py: cleaning
\* app2.py renames nothing, drops nothing and fills nothing: it converts the
\* two numeric columns (both are columns of every input of the model) and
\* adds Revenue.
IndexRows(raw) ==
  [cols |-> raw.cols,
   rows |-> [i \in 1..Len(raw.rows) |-> [idx |-> i - 1, c |-> raw.rows[i]]]]

CleanApp2(raw) == AddRevenue(ConvertNumeric(IndexRows(raw)))

\* ------------------------------------------------------------- sidebar
\* The columns each script offers a multiselect for, in the order of the
\* st.sidebar.multiselect calls.
FilterCols(v) ==
  IF v = "app"
  THEN <<"Promotion", "Product Position", "Seasonal", "section", "season", "material">>
  ELSE <<"Seasonal", "season", "material", "origin">>

\* app.py: sorted([x for x in df[col].unique() if pd.notna(x)]);
\* app2.py: sorted(df[col].dropna().unique()).
get_unique(df, col) == Sorted(Unique(df.rows, col))

\* The multiselects that are created before one of them reads a column the
\* frame lacks (KeyError): the longest prefix of FilterCols within df.cols.
Rendered(v, df) ==
  LET cs == FilterCols(v)
      bad == {i \in 1..Len(cs) : cs[i] \notin df.cols}
      stop == IF bad = {} THEN Len(cs) ELSE (CHOOSE i \in bad : \A j \in bad : i <= j) - 1
  IN  {cs[i] : i \in 1..stop}

AllRendered(v, df) == Rendered(v, df) = Range(FilterCols(v))

\* options= of every multiselect created.
Options(v, df) == [d \in Rendered(v, df) |-> get_unique(df, d)]

\* default= of every multiselect created: all the options.
DefaultSelection(v, df) == [d \in Rendered(v, df) |-> Range(get_unique(df, d))]

DefaultMaxPrice == 200

\* int(x) of a price that is not NaN: truncation to whole dollars.
IntOf(x) == Num((x.v \div PriceScale) * PriceScale)

\* Python truthiness of a float: only 0.0 is false, NaN is true.
Truthy(x) == x.na \/ x.v # 0

\* app.py: price_min, price_max = float(df['price'].min()), float(df['price'].max()).
\* Both are NaN for a frame without rows; float(nan) raises nothing and the
\* slider is handed NaN bounds.
PriceBoundsApp(df) ==
  [raises |-> FALSE,
   min |-> SeriesMin(Column(df.rows, "price")),
   max |-> SeriesMax(Column(df.rows, "price"))]

\* app2.py: min_value=0, max_value=int(df['price'].max()) if df['price'].max()
\* else 200; int(nan) raises ValueError.
PriceBoundsApp2(df) ==
  LET mx == SeriesMax(Column(df.rows, "price"))
  IN  IF Truthy(mx)
      THEN IF mx.na
           THEN [raises |-> TRUE, min |-> NaN, max |-> NaN]
           ELSE [raises |-> FALSE, min |-> Num(0), max |-> IntOf(mx)]
      ELSE [raises |-> FALSE, min |-> Num(0), max |-> Num(DefaultMaxPrice * PriceScale)]

PriceBounds(v, df) == IF v = "app" THEN PriceBoundsApp(df) ELSE PriceBoundsApp2(df)

\* value= of the slider: the whole interval.
DefaultRange(b) == [lo |-> b.min, hi |-> b.max]

\* The positions a slider handle can take: app.py steps by 1.0 from
\* min_value, app2.py by 1 from 0; max_value is a position too.
SliderStops(b) ==
  IF b.min.na \/ b.max.na THEN {}
  ELSE {x \in b.min.v..b.max.v : (x - b.min.v) % PriceScale = 0 \/ x = b.max.v}

\* ------------------------------------------------------------- filter
\* filtered_df with the price interval open at its lower end.
filtered_df_exclusive(df, w) ==
  SelectSeq(df.rows, LAMBDA r :
    /\ IsIn(r.c["Promotion"], w.sel["Promotion"])
    /\ IsIn(r.c["Product Position"], w.sel["Product Position"])
    /\ IsIn(r.c["Seasonal"], w.sel["Seasonal"])
    /\ IsIn(r.c["section"], w.sel["section"])
    /\ IsIn(r.c["season"], w.sel["season"])
    /\ IsIn(r.c["material"], w.sel["material"])
    /\ Between(r.c["price"], w.range.lo, w.range.hi)
    /\ r.c["price"].v > w.range.lo.v)

\* app.py: filtered_df = df[isin & isin & isin & isin & isin & isin & between]
filtered_df(df, w) ==
  SelectSeq(df.rows, LAMBDA r :
    /\ IsIn(r.c["Promotion"], w.sel["Promotion"])
    /\ IsIn(r.c["Product Position"], w.sel["Product Position"])
    /\ IsIn(r.c["Seasonal"], w.sel["Seasonal"])
    /\ IsIn(r.c["section"], w.sel["section"])
    /\ IsIn(r.c["season"], w.sel["season"])
    /\ IsIn(r.c["material"], w.sel["material"])
    /\ Between(r.c["price"], w.range.lo, w.range.hi))

\* app2.py: data = df[isin & isin & isin & isin & between]
data(df, w) ==
  SelectSeq(df.rows, LAMBDA r :
    /\ IsIn(r.c["Seasonal"], w.sel["Seasonal"])
    /\ IsIn(r.c["season"], w.sel["season"])
    /\ IsIn(r.c["material"], w.sel["material"])
    /\ IsIn(r.c["origin"], w.sel["origin"])
    /\ Between(r.c["price"], w.range.lo, w.range.hi))

ApplyFilters(v, df, w) == IF v = "app" THEN filtered_df(df, w) ELSE data(df, w)

\* ------------------------------------------------------------- sorting
\* InsertDesc putting an item before the items of equal key.
RECURSIVE InsertDescUnstable(_, _)
InsertDescUnstable(e, s) ==
  IF s = <<>> THEN <<e>>
  ELSE IF Head(s).k > e.k THEN <<Head(s)>> \o InsertDescUnstable(e, Tail(s))
       ELSE <<e>> \o s

\* A stable descending sort of items [k, x] by the integer key k: an item
\* goes behind every item whose key is at least its own.
RECURSIVE InsertDesc(_, _)
InsertDesc(e, s) ==
  IF s = <<>> THEN <<e>>
  ELSE IF Head(s).k >= e.k THEN <<Head(s)>> \o InsertDesc(e, Tail(s))
       ELSE <<e>> \o s

RECURSIVE SortDescInto(_, _)
SortDescInto(acc, rest) ==
  IF rest = <<>> THEN acc ELSE SortDescInto(InsertDesc(Head(rest), acc), Tail(rest))

SortDesc(items) == SortDescInto(<<>>, items)

Payload(items) == [i \in 1..Len(items) |-> items[i].x]

Min2(a, b) == IF a <= b THEN a ELSE b

\* DataFrame.nlargest(n, col), keep='first', as pandas documents it:
\* nothing for n <= 0; the rows whose cell is a number, largest first and
\* equal ones by first occurrence, then the rows whose cell is NaN, cut to
\* n rows.
nlargest(n, rows, col) ==
  IF n <= 0 THEN <<>>
  ELSE LET dropped == SelectSeq(rows, LAMBDA r : ~r.c[col].na)
           nan_index == SelectSeq(rows, LAMBDA r : r.c[col].na)
           keyed == [i \in 1..Len(dropped) |-> [k |-> dropped[i].c[col].v, x |-> dropped[i]]]
           all == Payload(SortDesc(keyed)) \o nan_index
       IN  SubSeq(all, 1, Min2(n, Len(all)))

TopNApp == 10
TopNApp2 == 20

\* ------------------------------------------------------------- aggregation
\* rows.groupby(col)[measure].sum(): one entry per value of col that is not
\* missing, in sorted key order.
GroupSum(rows, col, measure) ==
  LET keys == get_unique([rows |-> rows], col)
  IN  [i \in 1..Len(keys) |->
         [key |-> keys[i],
          total |-> SeriesSum(Column(SelectSeq(rows, LAMBDA r : r.c[col] = keys[i]),
                                     measure))]]

\* Series.sort_values(ascending=False) on grouped sums.
SortValuesDesc(groups) ==
  Payload(SortDesc([i \in 1..Len(groups) |-> [k |-> groups[i].total, x |-> groups[i]]]))

season_order == <<"Spring", "Summer", "Autumn", "Winter">>

SeasonRank(s) ==
  IF s \in Range(season_order)
  THEN CHOOSE i \in 1..Len(season_order) : season_order[i] = s
  ELSE Len(season_order) + 1

\* app2.py: data.groupby(['season', 'material'])['Sales Volume'].sum(), the
\* season made a pd.Categorical (a season outside season_order becomes
\* missing) and the groups sorted by it, missing last.
season_mat(rows) ==
  LET seasons == get_unique([rows |-> rows], "season")
      mats == get_unique([rows |-> rows], "material")
      pairs == [n \in 1..(Len(seasons) * Len(mats)) |->
                  <<seasons[((n - 1) \div Len(mats)) + 1], mats[((n - 1) % Len(mats)) + 1]>>]
      grp(p) == SelectSeq(rows, LAMBDA r : r.c["season"] = p[1] /\ r.c["material"] = p[2])
      seen == SelectSeq(pairs, LAMBDA p : grp(p) # <<>>)
      sums == [i \in 1..Len(seen) |->
                 [season |-> IF seen[i][1] \in Range(season_order) THEN seen[i][1] ELSE NA,
                  material |-> seen[i][2],
                  total |-> SeriesSum(Column(grp(seen[i]), "Sales Volume"))]]
  IN  Payload(SortDesc([i \in 1..Len(sums) |->
                          [k |-> 0 - SeasonRank(seen[i][1]), x |-> sums[i]]]))

\* f"${x:.2f}" of a mean: "$nan" for NaN, else dollars and cents, the cents
\* rounded to the nearest (a half goes up).
Digits2(n) == IF n < 10 THEN "0" \o ToString(n) ELSE ToString(n)

Fmt2f(m) ==
  IF m.count = 0 THEN "$nan"
  ELSE LET cents == (200 * m.sum + m.count * PriceScale) \div (2 * m.count * PriceScale)
       IN  "$" \o ToString(cents \div 100) \o "." \o Digits2(cents % 100)

\* DataFrame column .mode()[0]: the most frequent value that is not missing,
\* the first in sorted order among equally frequent ones.
Mode(rows, col) ==
  LET keys == get_unique([rows |-> rows], col)
      count(x) == Len(SelectSeq(rows, LAMBDA r : r.c[col] = x))
      best == SelectSeq(keys, LAMBDA x : \A i \in 1..Len(keys) : count(x) >= count(keys[i]))
  IN  best[1]

\* app.py "Key Metrics".  The units and the revenue are the sums handed to
\* the format strings; the revenue is in 1/PriceScale dollars.
MetricsApp(view) ==
  [total_products |-> Len(view),
   total_units |-> SeriesSum(Column(view, "Sales Volume")),
   total_revenue |-> SeriesSum(Column(view, "Revenue")),
   avg_price |-> Fmt2f(SeriesMean(Column(view, "price")))]

\* app2.py "Key Metrics".
MetricsApp2(view) ==
  [total_units |-> SeriesSum(Column(view, "Sales Volume")),
   total_revenue |-> SeriesSum(Column(view, "Revenue")),
   total_products |-> Len(view),
   top_material |-> IF view # <<>> THEN Mode(view, "material") ELSE "N/A"]

\* app.py line 196: the origin chart groups df, not filtered_df.
OriginSalesApp(df, view) == SortValuesDesc(GroupSum(df.rows, "origin", "Sales Volume"))

\* app2.py line 144: the origin chart groups data.
OriginSalesApp2(df, view) == SortValuesDesc(GroupSum(view, "origin", "Sales Volume"))

\* ------------------------------------------------------------- one run of a script
Clean(v, rawTable) == IF v = "app" THEN CleanApp(rawTable) ELSE CleanApp2(rawTable)

Metrics(v, rows) == IF v = "app" THEN MetricsApp(rows) ELSE MetricsApp2(rows)

\* The grouped sums charted between the metrics and the top sellers.
Groups(v, rows) ==
  IF v = "app"
  THEN [pos_data |-> SortValuesDesc(GroupSum(rows, "Product Position", "Sales Volume")),
        season_data |-> GroupSum(rows, "season", "Revenue")]
  ELSE [seasonal_sales |-> GroupSum(rows, "Seasonal", "Sales Volume"),
        season_mat |-> season_mat(rows)]

\* top10 of app.py, top20 of app2.py.
TopSellers(v, rows) ==
  nlargest(IF v = "app" THEN TopNApp ELSE TopNApp2, rows, "Sales Volume")

OriginSales(v, d, rows) ==
  IF v = "app" THEN OriginSalesApp(d, rows) ELSE OriginSalesApp2(d, rows)

NoBounds == [raises |-> FALSE, min |-> NaN, max |-> NaN]
NoRange == [lo |-> NaN, hi |-> NaN]
NoFrame == [cols |-> {}, rows |-> <<>>]

\* What one execution of script v on the file rawTable leaves behind.  The
\* widgets return their defaults on the first run (first = TRUE) and the
\* user's values wUser afterwards.  The run stops at the first statement that
\* raises: a multiselect on a column the frame lacks (KeyError), int(nan) in
\* app2.py's slider (ValueError), app2.py's px.bar on a frame without 'name'
\* (ValueError), app.py's df.groupby('origin') on a frame without 'origin'
\* (KeyError).
RunScript(v, rawTable, first, wUser) ==
  LET d == Clean(v, rawTable)
      keyErr == ~AllRendered(v, d)
      b == IF keyErr THEN NoBounds ELSE PriceBounds(v, d)
      valErr == ~keyErr /\ b.raises
      sidebar == ~keyErr /\ ~valErr
      wv == [sel |-> IF first THEN DefaultSelection(v, d) ELSE wUser.sel,
             range |-> IF ~sidebar THEN NoRange
                       ELSE IF first THEN DefaultRange(b) ELSE wUser.range]
      rows == IF sidebar THEN ApplyFilters(v, d, wv) ELSE <<>>
      figErr == sidebar /\ v = "app2" /\ "name" \notin d.cols
      originErr == sidebar /\ v = "app" /\ "origin" \notin d.cols
      finished == sidebar /\ ~figErr /\ ~originErr
  IN  [df |-> d,
       opts |-> Options(v, d),
       bounds |-> IF sidebar THEN b ELSE NoBounds,
       w |-> wv,
       view |-> rows,
       metrics |-> IF sidebar THEN Metrics(v, rows) ELSE <<>>,
       groups |-> IF sidebar THEN Groups(v, rows) ELSE <<>>,
       top |-> IF sidebar THEN TopSellers(v, rows) ELSE <<>>,
       origin_sales |-> IF finished THEN OriginSales(v, d, rows) ELSE <<>>,
       error |-> CASE keyErr -> "KeyError"
                   [] valErr -> "ValueError"
                   [] figErr -> "ValueError"
                   [] originErr -> "KeyError"
                   [] OTHER -> "none",
       reached |-> CASE ~sidebar -> "sidebar"
                     [] ~finished -> "charts"
                     [] OTHER -> "end"]

\* ------------------------------------------------------------- state
VARIABLES
  variant,      \* which script runs: "app" (app.py) or "app2" (app2.py)
  raw,          \* the CSV file: [cols, rows]
  pc,           \* "start" before the first run, "shown" after a run
  out,          \* what the last run left behind, see RunScript
  changes,      \* widget changes made so far
  tn_view,      \* rows handed to nlargest on its own
  tn_n,         \* n handed to nlargest on its own
  tn_out        \* [done, rows]: the result of nlargest on its own

vars == <<variant, raw, pc, out, changes, tn_view, tn_n, tn_out>>

NoWidgets == [sel |-> <<>>, range |-> NoRange]

NoOut ==
  [df |-> NoFrame, opts |-> <<>>, bounds |-> NoBounds, w |-> NoWidgets, view |-> <<>>,
   metrics |-> <<>>, groups |-> <<>>, top |-> <<>>, origin_sales |-> <<>>,
   error |-> "none", reached |-> "sidebar"]

NoTopN == [done |-> FALSE, rows |-> <<>>]

Init ==
  /\ variant = "app"
  /\ raw = [cols |-> {}, rows |-> <<>>]
  /\ pc = "start"
  /\ out = NoOut
  /\ changes = 0
  /\ tn_view = <<>>
  /\ tn_n = 0
  /\ tn_out = NoTopN

\* The first run of a script on a file: every widget returns its default.
Load ==
  /\ pc = "start"
  /\ \E v \in {"app", "app2"}, rawTable \in RawTables :
       /\ variant' = v
       /\ raw' = rawTable
       /\ out' = RunScript(v, rawTable, TRUE, NoWidgets)
  /\ pc' = "shown"
  /\ UNCHANGED <<changes, tn_view, tn_n, tn_out>>

\* The user removes a value x from the multiselect of a column d; the script
\* runs again.
Deselect ==
  /\ pc = "shown"
  /\ changes < MaxChanges
  /\ \E d \in DOMAIN out.opts : \E x \in out.w.sel[d] :
       out' = RunScript(variant, raw, FALSE, [out.w EXCEPT !.sel[d] = @ \ {x}])
  /\ changes' = changes + 1
  /\ UNCHANGED <<variant, raw, pc, tn_view, tn_n, tn_out>>

\* The user adds an option x back to the multiselect of a column d; the
\* script runs again.
Select ==
  /\ pc = "shown"
  /\ changes < MaxChanges
  /\ \E d \in DOMAIN out.opts : \E x \in Range(out.opts[d]) \ out.w.sel[d] :
       out' = RunScript(variant, raw, FALSE, [out.w EXCEPT !.sel[d] = @ \cup {x}])
  /\ changes' = changes + 1
  /\ UNCHANGED <<variant, raw, pc, tn_view, tn_n, tn_out>>

\* The user moves the handles of the price slider, which exists once the
\* run gets past the sidebar; the script runs again.
SetPriceRange ==
  /\ pc = "shown"
  /\ changes < MaxChanges
  /\ out.reached # "sidebar"
  /\ \E lo \in SliderStops(out.bounds), hi \in SliderStops(out.bounds) :
       /\ lo <= hi
       /\ [lo |-> Num(lo), hi |-> Num(hi)] # out.w.range
       /\ out' = RunScript(variant, raw, FALSE,
                           [out.w EXCEPT !.range = [lo |-> Num(lo), hi |-> Num(hi)]])
  /\ changes' = changes + 1
  /\ UNCHANGED <<variant, raw, pc, tn_view, tn_n, tn_out>>

Next == Load \/ Deselect \/ Select \/ SetPriceRange

Spec == Init /\ [][Next]_vars

\* ------------------------------------------------------------- nlargest on its own
\* A frame with the one column nlargest reads.
MeasureCells == {Num(m) : m \in 0..MaxMeasure} \cup {NaN}

TopNViews ==
  UNION { { [i \in 1..l |-> [idx |-> i - 1, c |-> [col \in {"Sales Volume"} |-> cs[i]]]]
            : cs \in [1..l -> MeasureCells] }
          : l \in 0..MaxLen }

InitTopN ==
  /\ variant = "app"
  /\ raw = [cols |-> {}, rows |-> <<>>]
  /\ pc = "start"
  /\ out = NoOut
  /\ changes = 0
  /\ tn_view \in TopNViews
  /\ tn_n \in 0..MaxN
  /\ tn_out = NoTopN

ComputeTopN ==
  /\ ~tn_out.done
  /\ tn_out' = [done |-> TRUE, rows |-> nlargest(tn_n, tn_view, "Sales Volume")]
  /\ UNCHANGED <<variant, raw, pc, out, changes, tn_view, tn_n>>

NextTopN == ComputeTopN

SpecTopN == InitTopN /\ [][NextTopN]_vars

\* ------------------------------------------------------------- properties
Shown == pc = "shown"

\* The run got past the sidebar: the filter, the metrics and the first
\* charts were computed.
Filtered == Shown /\ out.reached # "sidebar"

Sel == out.w.sel

\* lo <= r.price <= hi for the current slider interval; no comparison with a
\* missing number is true.
PriceWithin(r) ==
  /\ r.c["price"].na = FALSE
  /\ out.w.range.lo.na = FALSE
  /\ out.w.range.hi.na = FALSE
  /\ out.w.range.lo.v <= r.c["price"].v
  /\ r.c["price"].v <= out.w.range.hi.v

Member(r, d) == r.c[d] \in Sel[d]

Rows(s) == {s[i] : i \in 1..Len(s)}

InOrder(s) == \A i, j \in 1..Len(s) : i < j => s[i].idx < s[j].idx

\* The six dimensions claim C1 lists.
ClaimDims == {"Promotion", "Product Position", "Seasonal", "section", "season", "material"}

\* C1 as stated: the view is exactly the records of the Dataset, in its order,
\* whose promotion, position, seasonal, section, season and material are in
\* the selected sets (where the script has such a set) and whose price is in
\* the closed interval.  Fails for app2.py, which also filters by origin.
C1_SixDimensions ==
  Filtered =>
    /\ InOrder(out.view)
    /\ Rows(out.view) =
         {r \in Rows(out.df.rows) :
            /\ \A d \in ClaimDims \cap DOMAIN Sel : Member(r, d)
            /\ PriceWithin(r)}

\* C1 amended: the view is exactly the records of the Dataset, in its order,
\* whose value in every dimension the script offers a multiselect for
\* (app.py: the six of the claim; app2.py: Seasonal, season, material and
\* origin) is in the selected set and whose price is in the closed interval;
\* an empty selected set yields an empty view.
C1_OfferedDimensions ==
  Filtered =>
    /\ DOMAIN Sel = Range(FilterCols(variant))
    /\ InOrder(out.view)
    /\ Rows(out.view) =
         {r \in Rows(out.df.rows) : (\A d \in DOMAIN Sel : Member(r, d)) /\ PriceWithin(r)}
    /\ Len(out.view) = Cardinality(Rows(out.view))
    /\ (\E d \in DOMAIN Sel : Sel[d] = {}) => out.view = <<>>

\* A run of app.py whose filter keeps one of two records, after a deselection.
C1_Witness ==
  /\ Filtered
  /\ variant = "app"
  /\ Len(out.df.rows) = 2
  /\ Len(out.view) = 1
  /\ \E d \in DOMAIN Sel : Sel[d] # Range(out.opts[d]) /\ Sel[d] # {}

FullSelection == \A d \in DOMAIN Sel : Sel[d] = Range(out.opts[d])

\* C2: with every categorical selection equal to the options offered, the
\* view is exactly the records passing the price bound, also those whose
\* categorical value was missing in the file.
C2_FullSelectionIsIdentity ==
  (Filtered /\ FullSelection) =>
    Rows(out.view) = {r \in Rows(out.df.rows) : PriceWithin(r)}

\* C3: the summary of an empty view is 0 products, 0 units, 0 revenue and
\* the average price "N/A" (app.py is the script with an average price).
C3_EmptySummary ==
  (Filtered /\ variant = "app" /\ out.view = <<>>) =>
    /\ out.metrics.total_products = 0
    /\ out.metrics.total_units = 0
    /\ out.metrics.total_revenue = 0
    /\ out.metrics.avg_price = "N/A"

\* C4: no record of the Dataset, hence of the view, has a missing price or a
\* missing sales volume.
C4_NoMissingNumbers ==
  Shown =>
    \A r \in Rows(out.df.rows) \cup Rows(out.view) :
      ~r.c["price"].na /\ ~r.c["Sales Volume"].na

NameMapped == \E h \in raw.cols : Renamed(h) = "name"

\* C5: when no column of the file maps to name, every record is named
\* "Product " followed by its row index.
C5_SyntheticNames ==
  (Shown /\ variant = "app" /\ ~NameMapped) =>
    \A r \in Rows(out.df.rows) : r.c["name"] = "Product " \o ToString(r.idx)

CanonicalCategorical ==
  {"Promotion", "Product Position", "Seasonal", "section", "season", "material", "origin"}

AbsentCategorical == {c \in CanonicalCategorical : \A h \in raw.cols : Renamed(h) # c}

\* C6: a canonical categorical column the file lacks is filled with "Unknown"
\* in every record and the run completes without raising.
C6_AbsentColumnFilled ==
  (Shown /\ variant = "app") =>
    \A c \in AbsentCategorical :
      /\ out.error = "none"
      /\ c \in out.df.cols
      /\ \A r \in Rows(out.df.rows) : r.c[c] = "Unknown"

ValidPrices == {r.c["price"].v : r \in {x \in Rows(out.df.rows) : ~x.c["price"].na}}

\* The run reached the price slider: every multiselect was created.
SliderReached == Shown /\ AllRendered(variant, out.df)

\* C7: on load the price interval is [min(price), max(price)] of the
\* Dataset, so the default FilterSpec excludes no record by its price.
C7_DefaultPriceInterval ==
  (SliderReached /\ changes = 0 /\ ValidPrices # {}) =>
    /\ Filtered
    /\ ~out.w.range.lo.na /\ ~out.w.range.hi.na
    /\ \A p \in ValidPrices : out.w.range.lo.v <= p /\ p <= out.w.range.hi.v
    /\ out.w.range.lo.v \in ValidPrices
    /\ out.w.range.hi.v \in ValidPrices

\* C8: with no valid price in the Dataset the default price bounds are
\* computed without raising and are a finite interval.
C8_NoValidPrice ==
  (SliderReached /\ ValidPrices = {}) =>
    /\ out.error # "ValueError"
    /\ ~out.bounds.min.na
    /\ ~out.bounds.max.na

Measure(r) == r.c["Sales Volume"]

Greater(a, b) == ~a.na /\ ~b.na /\ a.v > b.v

Same(a, b) == ~a.na /\ ~b.na /\ a.v = b.v

RECURSIVE SumOver(_, _)
SumOver(S, measure) ==
  IF S = {} THEN 0
  ELSE LET r == CHOOSE x \in S : TRUE
       IN  (IF r.c[measure].na THEN 0 ELSE r.c[measure].v) + SumOver(S \ {r}, measure)

\* groups maps every category of column col in the view, and no other, to
\* the sum of measure over the view's records of that category.
SumsOfView(groups, col, measure) ==
  /\ {groups[i].key : i \in 1..Len(groups)} = {r.c[col] : r \in Rows(out.view)} \ {NA}
  /\ \A i \in 1..Len(groups) :
       groups[i].total = SumOver({r \in Rows(out.view) : r.c[col] = groups[i].key}, measure)

\* C10: every grouped sum presented, the sales volume by origin included, is
\* the sum over the records of the current view.
C10_AggregatesOverView ==
  (Shown /\ out.reached = "end") =>
    /\ SumsOfView(out.origin_sales, "origin", "Sales Volume")
    /\ variant = "app" =>
         /\ SumsOfView(out.groups.pos_data, "Product Position", "Sales Volume")
         /\ SumsOfView(out.groups.season_data, "season", "Revenue")
    /\ variant = "app2" =>
         SumsOfView(out.groups.seasonal_sales, "Seasonal", "Sales Volume")

====
